---- MODULE Spec2Model ----
(***************************************************************************)
(* A model of the article-parser bot (src/superbot.py): the /find pipeline *)
(* (cache check, search fan-out, round-robin merge, article extraction,    *)
(* summary, render, cache write), the response cache with its TTL, the     *)
(* copy-conclusion and show-sources callbacks, and the subscription sweep. *)
(*                                                                         *)
(* Texts are sequences of tokens.  Time is counted in ticks; TicksPerMinute*)
(* ticks make a minute, and a timestamp that falls on a whole minute stands*)
(* for a datetime whose microsecond field is zero.                         *)
(***************************************************************************)
EXTENDS Integers, Sequences, FiniteSets, TLC

VARIABLES
    SITES,          \* the keys of the SITES dict, in insertion order
    cache,          \* the rows of table cache, in rowid order
    now,            \* what datetime.now() returns, in ticks
    api_key,        \* whether openai.api_key is set
    find,           \* the /find invocations: the locals of each find_handler call
    callback,       \* the last reply of a callback handler: show_sources, copy_summary
    subscriptions,  \* the rows of table subscriptions, in rowid order
    sweep,          \* the run of check_subscriptions, if one is under way
    probe,          \* the last direct call of a function: its arguments and result
    user_sites      \* the rows of table user_sites, in rowid order

vars == <<SITES, cache, now, api_key, find, callback, subscriptions, sweep, probe,
          user_sites>>

-----------------------------------------------------------------------------
(* Bounds of the model *)

\* the longest link list a source reports in the merge specification
MaxLen == 3
\* the number of rows the cache table may hold
MaxRows == 3
\* the number of ticks that make one minute
TicksPerMinute == 2
\* the number of concurrent /find invocations
NumInv == 2
\* the number of responses the /find invocations may save
MaxSaved == 2
\* the number of rows the subscriptions table may hold
MaxSubs == 2
\* the number of rows the user_sites table may hold
MaxUserRows == 6
\* the number of words of a text handed to summarize_texts directly
MaxWords == 2
\* the number of texts handed to summarize_texts directly
MaxTexts == 3

-----------------------------------------------------------------------------
(* Program constants *)

\* max_links of find_handler
MaxLinks == 5
\* ttl_minutes of load_cache
TTL_MINUTES == 60

BuiltinSites == <<"realpython", "medium", "stackoverflow">>
CustomSite == "https://example.com"
\* URLs that /addsite accepts
CustomSites == {CustomSite, "https://docs.python.org", "https://pypi.org"}

Inv == 1..NumInv
Queries == {"asyncio", "django"}

-----------------------------------------------------------------------------
(* Sequences *)

SeqsUpTo(S, n) == UNION {[1..k -> S] : k \in 0..n}

NoDup(s) == \A a, b \in 1..Len(s) : a # b => s[a] # s[b]

Range(s) == {s[k] : k \in 1..Len(s)}

Min(a, b) == IF a < b THEN a ELSE b

-----------------------------------------------------------------------------
(* What search_links can return for a source, up to MaxLen links.          *)
(* realpython and stackoverflow prefix their origin to every href of the   *)
(* page and keep repeated hrefs; medium keeps the first occurrence of each *)
(* href (dict.fromkeys) after cutting it at "?", and its pattern matches   *)
(* anywhere in the href, so what it keeps need not be a medium.com URL.    *)
(* A source added by /addsite has no extraction branch: its list is empty. *)

SiteLinks(site) ==
    CASE site = "realpython"    -> {"https://realpython.com/a", "https://realpython.com/b"}
      [] site = "medium"        -> {"https://medium.com/a", "https://realpython.com/a"}
      [] site = "stackoverflow" -> {"https://stackoverflow.com/a", "https://stackoverflow.com/b"}
      [] OTHER                  -> {}

SearchLists(site) ==
    CASE site = "medium" -> {l \in SeqsUpTo(SiteLinks(site), MaxLen) : NoDup(l)}
      [] OTHER           -> SeqsUpTo(SiteLinks(site), MaxLen)

-----------------------------------------------------------------------------
(* The round-robin merge of find_handler.  Each element of the merged list *)
(* carries the place it was taken from (site, index) beside the link.      *)

\* a faulty variant of MergePass: a pass takes every remaining link of a source
RECURSIVE MergePassGreedy(_, _, _, _, _)
MergePassGreedy(site_results, index, j, acc, added) ==
    IF j > Len(site_results) THEN [all |-> acc, added |-> added]
    ELSE LET from == {p \in 1..Len(acc) : acc[p].site = j}
             k    == Cardinality(from)
         IN IF k < Len(site_results[j])
            THEN LET acc2 == Append(acc, [site |-> j, index |-> k,
                                          link |-> site_results[j][k + 1]])
                 IN IF Len(acc2) >= MaxLinks
                    THEN [all |-> acc2, added |-> TRUE]
                    ELSE MergePassGreedy(site_results, index, j, acc2, TRUE)
            ELSE MergePassGreedy(site_results, index, j + 1, acc, added)

\* a faulty variant of MergePass: a source's list is read from its end
RECURSIVE MergePassReversed(_, _, _, _, _)
MergePassReversed(site_results, index, j, acc, added) ==
    IF j > Len(site_results) THEN [all |-> acc, added |-> added]
    ELSE IF index < Len(site_results[j])
         THEN LET at   == Len(site_results[j]) - 1 - index
                  acc2 == Append(acc, [site |-> j, index |-> at,
                                       link |-> site_results[j][at + 1]])
              IN IF Len(acc2) >= MaxLinks
                 THEN [all |-> acc2, added |-> TRUE]
                 ELSE MergePassReversed(site_results, index, j + 1, acc2, TRUE)
         ELSE MergePassReversed(site_results, index, j + 1, acc, added)

\* one pass of the for loop over site_results, from list j on
RECURSIVE MergePass(_, _, _, _, _)
MergePass(site_results, index, j, acc, added) ==
    IF j > Len(site_results) THEN [all |-> acc, added |-> added]
    ELSE IF index < Len(site_results[j])
         THEN LET acc2 == Append(acc, [site |-> j, index |-> index,
                                       link |-> site_results[j][index + 1]])
              IN IF Len(acc2) >= MaxLinks
                 THEN [all |-> acc2, added |-> TRUE]
                 ELSE MergePass(site_results, index, j + 1, acc2, TRUE)
         ELSE MergePass(site_results, index, j + 1, acc, added)

\* the while loop: passes at index, index + 1, ... until the cap or an empty pass
RECURSIVE MergeLoop(_, _, _)
MergeLoop(site_results, index, acc) ==
    IF ~(Len(acc) < MaxLinks) THEN acc
    ELSE LET pass == MergePass(site_results, index, 1, acc, FALSE)
         IN IF ~pass.added THEN pass.all
            ELSE MergeLoop(site_results, index + 1, pass.all)

MergeSlots(site_results) == MergeLoop(site_results, 0, <<>>)

LinksOf(slots) == [p \in 1..Len(slots) |-> slots[p].link]

-----------------------------------------------------------------------------
(* The response cache: save_cache and load_cache.                          *)
(*                                                                         *)
(* created_at is stored as the text sqlite3 makes of datetime.now():       *)
(* "date time" when the microsecond field is zero, "date time.fraction"    *)
(* otherwise.  A text is modelled as <<minute>> or <<minute, fraction>>.   *)

TTL_TICKS == TTL_MINUTES * TicksPerMinute

\* str(datetime), as the sqlite3 adapter stores it
AdaptDatetime(t) ==
    IF t % TicksPerMinute = 0 THEN <<t \div TicksPerMinute>>
    ELSE <<t \div TicksPerMinute, t % TicksPerMinute>>

\* datetime.strptime(text, "%Y-%m-%d %H:%M:%S.%f"): ValueError without a fraction
StrptimeFraction(text) ==
    IF Len(text) = 2
    THEN [error |-> FALSE, value |-> text[1] * TicksPerMinute + text[2]]
    ELSE [error |-> TRUE, value |-> 0]

\* datetime.strptime(text, "%Y-%m-%d %H:%M:%S"): ValueError with a fraction
StrptimeWhole(text) ==
    IF Len(text) = 1
    THEN [error |-> FALSE, value |-> text[1] * TicksPerMinute]
    ELSE [error |-> TRUE, value |-> 0]

\* saved_time of load_cache: the first format, and the second on ValueError
SavedTime(text) ==
    IF ~StrptimeFraction(text).error THEN StrptimeFraction(text).value
    ELSE StrptimeWhole(text).value

\* the order of two created_at texts under ORDER BY: bytewise, a prefix first
TextLess(a, b) ==
    \/ a[1] < b[1]
    \/ a[1] = b[1] /\ Len(a) < Len(b)
    \/ a[1] = b[1] /\ Len(a) = 2 /\ Len(b) = 2 /\ a[2] < b[2]

\* a faulty variant of SaveCache: the row of the query is replaced
SaveCacheUpsert(rows, query, response, t) ==
    LET row  == [query |-> query, response |-> response, created_at |-> AdaptDatetime(t)]
        kept == SelectSeq(rows, LAMBDA r : r.query # query)
    IN Append(kept, row)

\* save_cache: INSERT INTO cache VALUES (query, response, datetime.now())
SaveCache(rows, query, response, t) ==
    Append(rows, [query |-> query, response |-> response, created_at |-> AdaptDatetime(t)])

\* a faulty variant of Fresh: an entry exactly TTL old still counts
FreshInclusive(saved_time, t) == t - saved_time <= TTL_TICKS

\* datetime.now() - saved_time < timedelta(minutes=ttl_minutes)
Fresh(saved_time, t) == t - saved_time < TTL_TICKS

\* the rows of a query, in rowid order
RowsOf(rows, query) == SelectSeq(rows, LAMBDA r : r.query = query)

\* a faulty variant of TopRows: ORDER BY created_at without DESC, the oldest row
TopRowsOldest(rows, query) ==
    LET mine == RowsOf(rows, query)
    IN {mine[k] : k \in {k \in 1..Len(mine) :
            \A m \in 1..Len(mine) : ~TextLess(mine[m].created_at, mine[k].created_at)}}

\* the rows SELECT ... WHERE query = ? ORDER BY created_at DESC LIMIT 1 may
\* yield: a row of the query with no later created_at; which one of several
\* rows with the same created_at comes first is not fixed by the statement
TopRows(rows, query) ==
    LET mine == RowsOf(rows, query)
    IN {mine[k] : k \in {k \in 1..Len(mine) :
            \A m \in 1..Len(mine) : ~TextLess(mine[k].created_at, mine[m].created_at)}}

\* what load_cache returns: None, or the response of a row
NoneValue == [none |-> TRUE, value |-> <<>>]
Some(v) == [none |-> FALSE, value |-> v]

\* load_cache: what a call may return
LoadCache(rows, query, t) ==
    IF TopRows(rows, query) = {} THEN {NoneValue}
    ELSE {IF Fresh(SavedTime(row.created_at), t) THEN Some(row.response) ELSE NoneValue :
            row \in TopRows(rows, query)}

\* "if cached:": None and the empty string are false
Truthy(cached) == ~cached.none /\ cached.value # <<>>

-----------------------------------------------------------------------------
(* Texts.  A text is the sequence of its whitespace-separated words; a word*)
(* that ends in ".", "!" or "?" ends a sentence.                           *)

\* max_sentences of summarize_texts
MaxSentences == 3
\* the number of words of a snippet in find_handler
SnippetWords == 30

TerminalWords == {"fast.", "asyncio.", "slow!", "django?"}

\* str.lower() on a word
Lower(w) ==
    CASE w = "Asyncio"  -> "asyncio"
      [] w = "Asyncio." -> "asyncio."
      [] w = "Django"   -> "django"
      [] OTHER          -> w

Take(s, n) == SubSeq(s, 1, Min(n, Len(s)))

RECURSIVE Flatten(_)
Flatten(ss) == IF ss = <<>> THEN <<>> ELSE Head(ss) \o Flatten(Tail(ss))

\* re.split(r'(?<=[.!?]) +', txt): the sentences of a text; the empty text
\* gives one empty sentence
RECURSIVE SplitSentences(_, _)
SplitSentences(words, current) ==
    IF words = <<>> THEN <<current>>
    ELSE IF Head(words) \in TerminalWords /\ Tail(words) # <<>>
         THEN <<Append(current, Head(words))>> \o SplitSentences(Tail(words), <<>>)
         ELSE SplitSentences(Tail(words), Append(current, Head(words)))

\* word_freq[w]: how often w occurs among the lowercased words of all sentences
WordFreq(sentences, w) ==
    LET all == Flatten(sentences)
    IN Cardinality({k \in 1..Len(all) : Lower(all[k]) = w})

\* the key of sorted(): the sum of the frequencies of the sentence's words
RECURSIVE SumFreq(_, _)
SumFreq(sentences, words) ==
    IF words = <<>> THEN 0
    ELSE WordFreq(sentences, Lower(Head(words))) + SumFreq(sentences, Tail(words))

Score(sentences, s) == SumFreq(sentences, s)

\* a faulty variant of Ranked: equal keys in reverse of their original order,
\* as reversing an ascending sort would give
RankedReversed(sentences) ==
    LET n == Len(sentences)
        ahead(k) == Cardinality({m \in 1..n :
                        \/ Score(sentences, sentences[m]) > Score(sentences, sentences[k])
                        \/ /\ Score(sentences, sentences[m]) = Score(sentences, sentences[k])
                           /\ m > k})
    IN [p \in 1..n |-> sentences[CHOOSE k \in 1..n : ahead(k) = p - 1]]

\* sorted(sentences, key=..., reverse=True): descending, equal keys in their
\* original order; position k goes to the sentence with k - 1 sentences ahead
Ranked(sentences) ==
    LET n == Len(sentences)
        ahead(k) == Cardinality({m \in 1..n :
                        \/ Score(sentences, sentences[m]) > Score(sentences, sentences[k])
                        \/ /\ Score(sentences, sentences[m]) = Score(sentences, sentences[k])
                           /\ m < k})
    IN [p \in 1..n |-> sentences[CHOOSE k \in 1..n : ahead(k) = p - 1]]

SummarySentinel == <<"Could not generate a short summary.">>

\* summarize_texts
SummarizeTexts(texts) ==
    LET sentences == Flatten([k \in 1..Len(texts) |-> SplitSentences(texts[k], <<>>)])
    IN IF sentences = <<>> THEN SummarySentinel
       ELSE Flatten(Take(Ranked(sentences), MaxSentences))


-----------------------------------------------------------------------------
(* The rendered response of find_handler *)

QueryHeader == "*Query:*"
KeyIdeasHeader == "*Key Ideas:*"
ConclusionMarker == "*Conclusion:*"

\* " ".join(text.split()[:30])
Snippet(text) == Take(text, SnippetWords)

\* f"*{title}*:\n{snippet}... [Read]({link})"
Idea(title, text, link) ==
    <<"*">> \o title \o <<"*:">> \o Snippet(text) \o <<"...", "[Read](", link, ")">>

\* the response text: the query header, the key ideas, the conclusion
Render(query, ideas, summary) ==
    <<QueryHeader, query, KeyIdeasHeader>>
      \o Flatten([k \in 1..Len(ideas) |-> <<"-">> \o ideas[k]])
      \o <<ConclusionMarker>> \o summary

\* a faulty variant of Usable: a title or a text is enough
UsableEither(articles) ==
    {k \in 1..Len(articles) :
        ~articles[k].none /\ (articles[k].title # <<>> \/ articles[k].text # <<>>)}

\* the indexes of the articles that have a title and a text
Usable(articles) ==
    {k \in 1..Len(articles) :
        ~articles[k].none /\ articles[k].title # <<>> /\ articles[k].text # <<>>}

\* the subsequence of s at the indexes in keep
RECURSIVE Pick(_, _, _)
Pick(s, keep, k) ==
    IF k > Len(s) THEN <<>>
    ELSE (IF k \in keep THEN <<s[k]>> ELSE <<>>) \o Pick(s, keep, k + 1)

\* ideas and texts of find_handler: one of each per usable article, in link order
IdeasOf(articles, all_links) ==
    Pick([k \in 1..Len(articles) |->
            Idea(articles[k].title, articles[k].text, all_links[k])],
         Usable(articles), 1)

TextsOf(articles) ==
    Pick([k \in 1..Len(articles) |-> articles[k].text], Usable(articles), 1)

\* what copy_summary takes from a cached response:
\* str(cached).split(marker, 1)[-1].strip()
AfterMarker(text) ==
    LET at == {k \in 1..Len(text) : text[k] = ConclusionMarker}
    IN IF at = {} THEN text
       ELSE LET first == CHOOSE k \in at : \A m \in at : k <= m
            IN SubSeq(text, first + 1, Len(text))

-----------------------------------------------------------------------------
(* Messages of the bot *)

UsageText == <<"Please enter a query after the command.">>
SearchingText == <<"Searching for information, please wait...">>
NoArticlesText == <<"Could not find any articles. Try another topic.">>
NoContentText == <<"Could not extract content from the pages.">>
AINoChoiceText == <<"Could not generate an AI summary.">>
AIFailedText == <<"Failed to generate AI summary. Falling back to basic method.">>
NotCachedText == <<"Conclusion not found. The cache might have expired.">>
NoSourcesText == <<"Could not find sources for this query.">>
SourcesHeader == "*Sources:*"

-----------------------------------------------------------------------------
(* What the network returns *)

\* fetch_article on a page that parses: article.title and the stripped text
Parsed(title, text) == [none |-> FALSE, title |-> title, text |-> text]
\* fetch_article on ValueError or IOError: (None, None)
NoArticle == [none |-> TRUE, title |-> <<>>, text |-> <<>>]

\* what a search request can do: answer 200 with a page that holds the links,
\* answer another status, fail with an aiohttp.ClientError, or run into the
\* total timeout of the session (asyncio.TimeoutError, not a ClientError)
Ok(links) == [kind |-> "ok", links |-> links]
BadStatus == [kind |-> "status", links |-> <<>>]
ClientError == [kind |-> "client_error", links |-> <<>>]
Timeout == [kind |-> "timeout", links |-> <<>>]
\* a request that has not ended
Unanswered == [kind |-> "pending", links |-> <<>>]

\* search_links: the links of the page; [] for a status other than 200 and
\* for a ClientError; any other exception leaves the function
SearchLinks(answer) ==
    CASE answer.kind = "ok"           -> [raised |-> FALSE, links |-> answer.links]
      [] answer.kind = "status"       -> [raised |-> FALSE, links |-> <<>>]
      [] answer.kind = "client_error" -> [raised |-> FALSE, links |-> <<>>]
      [] OTHER                        -> [raised |-> TRUE, links |-> <<>>]

ArticleOf(link) ==
    CASE link = "https://realpython.com/a"    -> Parsed(<<"Async", "IO">>, <<"Asyncio", "is", "fast.">>)
      [] link = "https://realpython.com/b"    -> Parsed(<<"Speed">>, <<"asyncio", "is", "fast.", "threads", "slow!">>)
      [] link = "https://medium.com/a"        -> Parsed(<<"Why">>, <<ConclusionMarker, "use", "asyncio.">>)
      [] link = "https://stackoverflow.com/a" -> Parsed(<<"How">>, <<"is", "django", "slow!">>)
      [] OTHER                                -> Parsed(<<"Page">>, <<"django?">>)

\* what Article(url), download() and parse() can do in fetch_article: succeed,
\* raise a ValueError or an IOError, or raise the ArticleException that
\* parse() raises for a page whose download failed
FetchFaults == {"none", "ValueError", "IOError", "ArticleException"}

\* what the parse of a downloaded page can lack: newspaper finds no title
\* (article.title is ""), or no body text (article.text is "" after strip())
PartialPages == {"no_title", "no_text"}

\* fetch_article: (title, text) of the page; (None, None) for a ValueError or
\* an IOError; any other exception leaves the function
FetchArticle(link, fault) ==
    CASE fault = "none"                   -> [raised |-> FALSE, value |-> ArticleOf(link)]
      [] fault \in {"ValueError", "IOError"} -> [raised |-> FALSE, value |-> NoArticle]
      [] fault = "no_title"               ->
            [raised |-> FALSE, value |-> Parsed(<<>>, ArticleOf(link).text)]
      [] fault = "no_text"                ->
            [raised |-> FALSE, value |-> Parsed(ArticleOf(link).title, <<>>)]
      [] OTHER                            -> [raised |-> TRUE, value |-> NoArticle]

\* what openai.chat.completions.create can do: return a first choice with a
\* content (None and whitespace give the empty content), return no choice, or
\* raise an OpenAIError (a timeout, a failed authentication, a response that
\* does not validate), a ValueError or a TypeError
Choice(content) == [kind |-> "choice", content |-> content, error |-> ""]
NoChoices == [kind |-> "no_choices", content |-> <<>>, error |-> ""]
AIError(error) == [kind |-> "error", content |-> <<>>, error |-> error]
NoReply == [kind |-> "none", content |-> <<>>, error |-> ""]

\* get_ai_summary: without a key the extractive summary; with a key the
\* stripped content of the first choice, the text for no choice, or the text
\* for a failed call
GetAISummary(texts, ai_reply) ==
    IF ~api_key THEN SummarizeTexts(texts)
    ELSE CASE ai_reply.kind = "choice"     -> ai_reply.content
           [] ai_reply.kind = "no_choices" -> AINoChoiceText
           [] OTHER                        -> AIFailedText

-----------------------------------------------------------------------------
(* The /find invocations *)

IdleFind ==
    [pc |-> "idle", query |-> "", pending |-> {}, site_results |-> <<>>,
     slots |-> <<>>, all_links |-> <<>>, fetching |-> {}, articles |-> <<>>,
     ideas |-> <<>>, texts |-> <<>>, summary |-> <<>>, response |-> <<>>,
     reply |-> <<>>, outcome |-> "none",
     answers |-> <<>>, faults |-> <<>>, ai_reply |-> NoReply, trail |-> <<>>,
     searches |-> 0, fetches |-> 0, summaries |-> 0, writes |-> 0]

\* the invocations that are running
Active == {i \in Inv : find[i].pc \notin {"idle", "done"}}

\* a faulty variant of FindStart: the cache is not consulted
FindStartUncached(i, query) ==
    /\ find[i].pc = "idle"
    /\ query # ""
    /\ Len(cache) + Cardinality(Active) < MaxSaved
    /\ find' = [find EXCEPT ![i] = [@ EXCEPT !.pc = "notify",
                   !.query = query, !.reply = SearchingText]]
    /\ UNCHANGED <<SITES, cache, now, api_key, callback, subscriptions, sweep, probe, user_sites>>

\* find_handler from its start to its first await: the usage reply, the
\* cached reply, or the "searching" notice
FindStart(i, query) ==
    /\ find[i].pc = "idle"
    /\ IF query = ""
       THEN find' = [find EXCEPT ![i] = [@ EXCEPT !.pc = "reply", !.query = query,
                         !.outcome = "usage", !.reply = UsageText]]
       ELSE \E cached \in LoadCache(cache, query, now) :
              IF Truthy(cached)
              THEN find' = [find EXCEPT ![i] = [@ EXCEPT !.pc = "reply", !.query = query,
                                !.outcome = "cached", !.reply = cached.value]]
              ELSE /\ Len(cache) + Cardinality(Active) < MaxSaved
                   /\ find' = [find EXCEPT ![i] = [@ EXCEPT !.pc = "notify",
                                  !.query = query, !.reply = SearchingText]]
    /\ UNCHANGED <<SITES, cache, now, api_key, callback, subscriptions, sweep, probe, user_sites>>

\* a faulty variant of FindReplied: the last message is saved as a response
FindRepliedSaving(i) ==
    /\ find[i].pc = "reply"
    /\ find' = [find EXCEPT ![i] = [@ EXCEPT !.pc = "done"]]
    /\ cache' = IF find[i].outcome \in {"no_articles", "no_content"}
                THEN SaveCache(cache, find[i].query, find[i].reply, now)
                ELSE cache
    /\ UNCHANGED <<SITES, now, api_key, callback, subscriptions, sweep, probe, user_sites>>

\* the last message of an invocation that ends early is sent: the handler returns
FindReplied(i) ==
    /\ find[i].pc = "reply"
    /\ find' = [find EXCEPT ![i] = [@ EXCEPT !.pc = "done"]]
    /\ UNCHANGED <<SITES, cache, now, api_key, callback, subscriptions, sweep, probe, user_sites>>

\* the notice is sent: one search_links per key of SITES is started
FindSearch(i) ==
    /\ find[i].pc = "notify"
    /\ find' = [find EXCEPT ![i] = [@ EXCEPT !.pc = "search",
                   !.pending = 1..Len(SITES),
                   !.site_results = [j \in 1..Len(SITES) |-> <<>>],
                   !.answers = [j \in 1..Len(SITES) |-> Unanswered],
                   !.trail = <<"SEARCH">>,
                   !.searches = Len(SITES)]]
    /\ UNCHANGED <<SITES, cache, now, api_key, callback, subscriptions, sweep, probe, user_sites>>

\* the handler has left find_handler with an exception: its locals are gone
Raised(inv, outcome) ==
    [IdleFind EXCEPT !.pc = "done", !.query = inv.query, !.outcome = outcome,
                     !.answers = inv.answers, !.faults = inv.faults,
                     !.trail = inv.trail,
                     !.searches = inv.searches, !.fetches = inv.fetches,
                     !.summaries = inv.summaries, !.writes = inv.writes]

\* the request of source j ends: search_links returns its list to gather, or
\* raises, and gather passes the exception on to find_handler at once
SearchDone(i, j, answer) ==
    /\ find[i].pc = "search"
    /\ j \in find[i].pending
    /\ LET got  == SearchLinks(answer)
           seen == [find[i] EXCEPT !.answers = [@ EXCEPT ![j] = answer]]
       IN IF got.raised
          THEN find' = [find EXCEPT ![i] = Raised(seen, "search_raised")]
          ELSE find' = [find EXCEPT ![i] = [seen EXCEPT !.pending = @ \ {j},
                           !.site_results = [@ EXCEPT ![j] = got.links]]]
    /\ UNCHANGED <<SITES, cache, now, api_key, callback, subscriptions, sweep, probe, user_sites>>

\* a faulty variant of FindMerge: the merge starts at the first list
FindMergeEarly(i) ==
    /\ find[i].pc = "search"
    /\ find[i].pending # 1..Len(find[i].site_results)
    /\ LET slots == MergeSlots(find[i].site_results)
           all_links == LinksOf(slots)
       IN IF all_links = <<>>
          THEN find' = [find EXCEPT ![i] = [@ EXCEPT !.pc = "reply",
                           !.slots = slots, !.all_links = all_links,
                           !.trail = Append(@, "MERGE"),
                           !.outcome = "no_articles", !.reply = NoArticlesText]]
          ELSE find' = [find EXCEPT ![i] = [@ EXCEPT !.pc = "fetch",
                           !.slots = slots, !.all_links = all_links,
                           !.trail = Append(@, "MERGE"),
                           !.fetching = 1..Len(all_links),
                           !.articles = [k \in 1..Len(all_links) |-> NoArticle],
                           !.faults = [k \in 1..Len(all_links) |-> "pending"],
                           !.fetches = Len(all_links)]]
    /\ UNCHANGED <<SITES, cache, now, api_key, callback, subscriptions, sweep, probe, user_sites>>

\* gather has every list: the merge, then the "no articles" reply or one
\* fetch_article per link
FindMerge(i) ==
    /\ find[i].pc = "search"
    /\ find[i].pending = {}
    /\ LET slots == MergeSlots(find[i].site_results)
           all_links == LinksOf(slots)
       IN IF all_links = <<>>
          THEN find' = [find EXCEPT ![i] = [@ EXCEPT !.pc = "reply",
                           !.slots = slots, !.all_links = all_links,
                           !.trail = Append(@, "MERGE"),
                           !.outcome = "no_articles", !.reply = NoArticlesText]]
          ELSE find' = [find EXCEPT ![i] = [@ EXCEPT !.pc = "fetch",
                           !.slots = slots, !.all_links = all_links,
                           !.trail = Append(@, "MERGE"),
                           !.fetching = 1..Len(all_links),
                           !.articles = [k \in 1..Len(all_links) |-> NoArticle],
                           !.faults = [k \in 1..Len(all_links) |-> "pending"],
                           !.fetches = Len(all_links)]]
    /\ UNCHANGED <<SITES, cache, now, api_key, callback, subscriptions, sweep, probe, user_sites>>

\* fetch_article of link k returns its pair to gather, or raises, and gather
\* passes the exception on to find_handler at once
FetchDone(i, k, fault) ==
    /\ find[i].pc = "fetch"
    /\ k \in find[i].fetching
    /\ LET got  == FetchArticle(find[i].all_links[k], fault)
           seen == [find[i] EXCEPT !.faults = [@ EXCEPT ![k] = fault]]
       IN IF got.raised
          THEN find' = [find EXCEPT ![i] = Raised(seen, "fetch_raised")]
          ELSE find' = [find EXCEPT ![i] = [seen EXCEPT !.fetching = @ \ {k},
                           !.articles = [@ EXCEPT ![k] = got.value]]]
    /\ UNCHANGED <<SITES, cache, now, api_key, callback, subscriptions, sweep, probe, user_sites>>

\* gather has every article: ideas and texts, then the "no content" reply,
\* the call of the AI service, or the local summary and the rendered response
FindExtract(i) ==
    /\ find[i].pc = "fetch"
    /\ find[i].fetching = {}
    /\ LET ideas == IdeasOf(find[i].articles, find[i].all_links)
           texts == TextsOf(find[i].articles)
       IN IF ideas = <<>>
          THEN find' = [find EXCEPT ![i] = [@ EXCEPT !.pc = "reply",
                           !.trail = Append(@, "EXTRACT"),
                           !.outcome = "no_content", !.reply = NoContentText]]
          ELSE IF api_key
          THEN find' = [find EXCEPT ![i] = [@ EXCEPT !.pc = "summary",
                           !.trail = Append(@, "EXTRACT"),
                           !.ideas = ideas, !.texts = texts, !.summaries = 1]]
          ELSE LET summary == SummarizeTexts(texts)
               IN find' = [find EXCEPT ![i] = [@ EXCEPT !.pc = "edit",
                              !.trail = @ \o <<"EXTRACT", "SUMMARIZE">>,
                              !.ideas = ideas, !.texts = texts, !.summary = summary,
                              !.response = Render(find[i].query, ideas, summary),
                              !.summaries = 1]]
    /\ UNCHANGED <<SITES, cache, now, api_key, callback, subscriptions, sweep, probe, user_sites>>

\* the call of the AI service ends: get_ai_summary returns and the response
\* is put together
FindSummary(i, ai_reply) ==
    /\ find[i].pc = "summary"
    /\ LET summary == GetAISummary(find[i].texts, ai_reply)
       IN find' = [find EXCEPT ![i] = [@ EXCEPT !.pc = "edit", !.summary = summary,
                      !.ai_reply = ai_reply,
                      !.trail = Append(@, "SUMMARIZE"),
                      !.response = Render(find[i].query, find[i].ideas, summary)]]
    /\ UNCHANGED <<SITES, cache, now, api_key, callback, subscriptions, sweep, probe, user_sites>>

\* msg.edit_text returns and the response is saved, or it raises and the
\* handler ends without the save
FindEdit(i, sent) ==
    /\ find[i].pc = "edit"
    /\ IF sent
       THEN /\ cache' = SaveCache(cache, find[i].query, find[i].response, now)
            /\ find' = [find EXCEPT ![i] = [IdleFind EXCEPT !.pc = "done",
                           !.query = find[i].query, !.outcome = "rendered",
                           !.reply = find[i].response,
                           !.summary = find[i].summary,
                           !.trail = find[i].trail \o <<"RENDER", "CACHE_WRITE">>,
                           !.searches = find[i].searches, !.fetches = find[i].fetches,
                           !.summaries = find[i].summaries, !.writes = find[i].writes + 1]]
       ELSE /\ cache' = cache
            /\ find' = [find EXCEPT ![i] = [IdleFind EXCEPT !.pc = "done",
                           !.query = find[i].query, !.outcome = "error",
                           !.trail = find[i].trail,
                           !.searches = find[i].searches, !.fetches = find[i].fetches,
                           !.summaries = find[i].summaries]]
    /\ UNCHANGED <<SITES, now, api_key, callback, subscriptions, sweep, probe, user_sites>>

\* the next /find message takes the place of an invocation that has ended
FindAgain(i) ==
    /\ find[i].pc = "done"
    /\ find' = [find EXCEPT ![i] = IdleFind]
    /\ UNCHANGED <<SITES, cache, now, api_key, callback, subscriptions, sweep, probe, user_sites>>

\* copy_summary: the conclusion of the cached response, or the "not found" text
CopySummary(query) ==
    /\ \E cached \in LoadCache(cache, query, now) :
         callback' = [op |-> "copy", query |-> query,
                      text |-> IF Truthy(cached) THEN AfterMarker(cached.value)
                               ELSE NotCachedText]
    /\ UNCHANGED <<SITES, cache, now, api_key, find, subscriptions, sweep, probe, user_sites>>

\* "\n".join(f"{i}. {link}" for i, link in enumerate(all_links, 1))
Numbered(all_links) ==
    Flatten([k \in 1..Len(all_links) |-> <<ToString(k), all_links[k]>>])

\* show_sources: one search_links per key of SITES, whose requests end with
\* the answers got; the lists one after the other, numbered, or the "no
\* sources" text; no reply when a search raises
ShowSources(query, got) ==
    /\ Len(got) = Len(SITES)
    /\ LET results   == [j \in 1..Len(got) |-> SearchLinks(got[j])]
           all_links == Flatten([j \in 1..Len(got) |-> results[j].links])
       IN callback' =
             [op |-> "sources", query |-> query,
              text |-> IF \E j \in 1..Len(got) : results[j].raised THEN <<>>
                       ELSE IF all_links = <<>> THEN NoSourcesText
                       ELSE <<SourcesHeader>> \o Numbered(all_links)]
    /\ UNCHANGED <<SITES, cache, now, api_key, find, subscriptions, sweep, probe, user_sites>>

\* the URL pattern of add_site_handler, re.match(r'https?://[\w.-]+', site_url):
\* of the arguments of the model, the URLs of CustomSites match it
ValidUrl(site_url) == site_url \in CustomSites

\* add_site_handler: a URL that matches the pattern and answers 200 becomes a
\* key of SITES, at the end when it is new; otherwise SITES stays as it is
AddSite(site_url, answer) ==
    /\ SITES' = IF /\ site_url # ""
                   /\ ValidUrl(site_url)
                   /\ answer.kind = "ok"
                   /\ site_url \notin Range(SITES)
                THEN Append(SITES, site_url)
                ELSE SITES
    /\ UNCHANGED <<cache, now, api_key, find, callback, subscriptions, sweep, probe, user_sites>>

\* time passes
Tick(d) ==
    /\ now + d <= 2 * TTL_TICKS + 1
    /\ now' = now + d
    /\ UNCHANGED <<SITES, cache, api_key, find, callback, subscriptions, sweep, probe, user_sites>>


-----------------------------------------------------------------------------
(* Subscriptions and the sweep check_subscriptions *)

\* add_subscription: INSERT INTO subscriptions
Subscribe(user_id, query) ==
    /\ Len(subscriptions) < MaxSubs
    /\ subscriptions' = Append(subscriptions, [user_id |-> user_id, query |-> query])
    /\ UNCHANGED <<SITES, cache, now, api_key, find, callback, sweep, probe, user_sites>>

\* remove_subscription: DELETE FROM subscriptions WHERE user_id = ? AND query = ?
Unsubscribe(user_id, query) ==
    /\ subscriptions' = SelectSeq(subscriptions,
                            LAMBDA r : ~(r.user_id = user_id /\ r.query = query))
    /\ UNCHANGED <<SITES, cache, now, api_key, find, callback, sweep, probe, user_sites>>

\* a faulty variant of Distinct: SELECT without DISTINCT, a pair for every row
EveryRow(rows) == rows

\* SELECT DISTINCT user_id, query: each pair once, at its first row
RECURSIVE Distinct(_)
Distinct(rows) ==
    IF rows = <<>> THEN <<>>
    ELSE LET rest == Distinct(SubSeq(rows, 1, Len(rows) - 1))
         IN IF rows[Len(rows)] \in Range(rest) THEN rest
            ELSE Append(rest, rows[Len(rows)])

\* the run of check_subscriptions: its locals, the pairs whose message went
\* out (notified) and how the last run ended (outcome)
IdleSweep ==
    [pc |-> "idle", todo |-> <<>>, pending |-> {}, site_results |-> <<>>,
     message |-> <<>>, notified |-> <<>>, outcome |-> "none"]

\* f"New articles for '{query}':\n" + "\n".join(all_links[:5])
SweepMessage(query, all_links) ==
    <<"New articles for", query>> \o Take(all_links, MaxLinks)

\* the sweep is over, normally or with an exception: its locals are gone
SweepOver(run, todo, outcome) ==
    [IdleSweep EXCEPT !.todo = todo, !.notified = run.notified,
                      !.outcome = outcome]

\* the searches of the first pair of todo are started, or the sweep ends
SweepTurn(run, todo) ==
    IF todo = <<>> THEN SweepOver(run, <<>>, "ended")
    ELSE [run EXCEPT !.pc = "search", !.todo = todo,
                     !.pending = 1..Len(SITES),
                     !.site_results = [j \in 1..Len(SITES) |-> <<>>],
                     !.message = <<>>]

\* the scheduler starts check_subscriptions: the pairs are read
SweepStart ==
    /\ sweep.pc = "idle"
    /\ sweep' = SweepTurn(IdleSweep, Distinct(subscriptions))
    /\ UNCHANGED <<SITES, cache, now, api_key, find, callback, subscriptions, probe, user_sites>>

\* the request of source j ends: search_links returns its list to gather, or
\* raises, and the exception leaves check_subscriptions
SweepSearchDone(j, answer) ==
    /\ sweep.pc = "search"
    /\ j \in sweep.pending
    /\ LET got == SearchLinks(answer)
       IN IF got.raised
          THEN sweep' = SweepOver(sweep, sweep.todo, "raised")
          ELSE sweep' = [sweep EXCEPT !.pending = @ \ {j},
                            !.site_results = [@ EXCEPT ![j] = got.links]]
    /\ UNCHANGED <<SITES, cache, now, api_key, find, callback, subscriptions, probe, user_sites>>

\* a faulty variant of SweepNotify: the message is also kept as a response
SweepNotifyCaching ==
    /\ sweep.pc = "search"
    /\ sweep.pending = {}
    /\ LET all_links == Flatten(sweep.site_results)
       IN IF all_links # <<>>
          THEN /\ sweep' = [sweep EXCEPT !.pc = "send",
                               !.message = SweepMessage(Head(sweep.todo).query, all_links)]
               /\ cache' = IF Len(cache) < MaxRows
                           THEN SaveCache(cache, Head(sweep.todo).query,
                                          SweepMessage(Head(sweep.todo).query, all_links), now)
                           ELSE cache
          ELSE /\ sweep' = SweepTurn(sweep, Tail(sweep.todo))
               /\ cache' = cache
    /\ UNCHANGED <<SITES, now, api_key, find, callback, subscriptions, probe, user_sites>>

\* gather has every list of the pair: the lists one after the other; the
\* message of the first five links is sent if there is a link
SweepNotify ==
    /\ sweep.pc = "search"
    /\ sweep.pending = {}
    /\ LET all_links == Flatten(sweep.site_results)
       IN IF all_links # <<>>
          THEN sweep' = [sweep EXCEPT !.pc = "send",
                            !.message = SweepMessage(Head(sweep.todo).query, all_links)]
          ELSE sweep' = SweepTurn(sweep, Tail(sweep.todo))
    /\ UNCHANGED <<SITES, cache, now, api_key, find, callback, subscriptions, probe, user_sites>>

\* bot.send_message returns, or raises and the error is logged; the next pair
SweepSent(sent) ==
    /\ sweep.pc = "send"
    /\ LET run == [sweep EXCEPT
                      !.notified = IF sent THEN Append(@, Head(sweep.todo)) ELSE @]
       IN sweep' = SweepTurn(run, Tail(sweep.todo))
    /\ UNCHANGED <<SITES, cache, now, api_key, find, callback, subscriptions, probe, user_sites>>

\* no call yet
NoProbe ==
    [op |-> "none", query |-> "", result |-> NoneValue, at |-> 0, rows |-> 0,
     texts |-> <<>>, user_id |-> 0]

-----------------------------------------------------------------------------
(* The site lists of the users: table user_sites and its four commands.    *)
(* SELECT without ORDER BY gives the rows in rowid order.                  *)

\* default_sites of get_user_sites and reset_user_sites
DefaultSites ==
    <<"https://realpython.com/search/?q=", "https://medium.com/search?q=",
      "https://stackoverflow.com/search?q=">>

DefaultRows(user_id) ==
    [k \in 1..Len(DefaultSites) |-> [user_id |-> user_id, site_url |-> DefaultSites[k]]]

\* SELECT site_url FROM user_sites WHERE user_id = ?
UserUrls(rows, user_id) ==
    LET own == SelectSeq(rows, LAMBDA row : row.user_id = user_id)
    IN [k \in 1..Len(own) |-> own[k].site_url]

\* a faulty variant of GetUserSites: the defaults are returned, not inserted
GetUserSitesUnsaved(rows, user_id) ==
    IF UserUrls(rows, user_id) = <<>>
    THEN [sites |-> DefaultSites, rows |-> rows]
    ELSE [sites |-> UserUrls(rows, user_id), rows |-> rows]

\* get_user_sites: the list it returns and the rows of the table afterwards
GetUserSites(rows, user_id) ==
    IF UserUrls(rows, user_id) = <<>>
    THEN [sites |-> DefaultSites, rows |-> rows \o DefaultRows(user_id)]
    ELSE [sites |-> UserUrls(rows, user_id), rows |-> rows]

\* add_user_site
AddUserSite(rows, user_id, site_url) ==
    Append(rows, [user_id |-> user_id, site_url |-> site_url])

\* remove_user_site
RemoveUserSite(rows, user_id, site_url) ==
    SelectSeq(rows, LAMBDA row : ~(row.user_id = user_id /\ row.site_url = site_url))

\* reset_user_sites
ResetUserSites(rows, user_id) ==
    SelectSeq(rows, LAMBDA row : row.user_id # user_id) \o DefaultRows(user_id)

\* the replies of the four commands, which the source words in Ukrainian
EmptySitesText == "Your site list is empty."
SitesHeader == "Your sites:"
SiteAddedText == "was added to your list."
SiteRemovedText == "was removed from your list."
SitesResetText == "Your site list was reset to the defaults."

\* /my_sources: the list read is kept in probe, with the number of rows the
\* user had before the read
my_sources(user_id) ==
    LET got == GetUserSites(user_sites, user_id)
    IN /\ Len(got.rows) <= MaxUserRows
       /\ user_sites' = got.rows
       /\ probe' = [NoProbe EXCEPT !.op = "my_sources", !.user_id = user_id,
                                    !.result = Some(got.sites),
                                    !.rows = Len(UserUrls(user_sites, user_id))]
       /\ callback' = [op |-> "my_sources", query |-> "",
                       text |-> IF got.sites = <<>> THEN <<EmptySitesText>>
                                ELSE <<SitesHeader>> \o got.sites]
       /\ UNCHANGED <<SITES, cache, now, api_key, find, subscriptions, sweep>>

\* /add_source <url>
add_source(user_id, site_url) ==
    /\ Len(user_sites) < MaxUserRows
    /\ user_sites' = AddUserSite(user_sites, user_id, site_url)
    /\ probe' = [NoProbe EXCEPT !.op = "add_source", !.user_id = user_id,
                                 !.query = site_url]
    /\ callback' = [op |-> "add_source", query |-> "",
                    text |-> <<"Site", site_url, SiteAddedText>>]
    /\ UNCHANGED <<SITES, cache, now, api_key, find, subscriptions, sweep>>

\* /remove_source <url>
remove_source(user_id, site_url) ==
    /\ user_sites' = RemoveUserSite(user_sites, user_id, site_url)
    /\ probe' = [NoProbe EXCEPT !.op = "remove_source", !.user_id = user_id,
                                 !.query = site_url]
    /\ callback' = [op |-> "remove_source", query |-> "",
                    text |-> <<"Site", site_url, SiteRemovedText>>]
    /\ UNCHANGED <<SITES, cache, now, api_key, find, subscriptions, sweep>>

\* /reset_sources
reset_sources(user_id) ==
    /\ Len(ResetUserSites(user_sites, user_id)) <= MaxUserRows
    /\ user_sites' = ResetUserSites(user_sites, user_id)
    /\ probe' = [NoProbe EXCEPT !.op = "reset_sources", !.user_id = user_id]
    /\ callback' = [op |-> "reset_sources", query |-> "", text |-> <<SitesResetText>>]
    /\ UNCHANGED <<SITES, cache, now, api_key, find, subscriptions, sweep>>

-----------------------------------------------------------------------------
(* Direct calls of functions *)

\* save_cache(query, response)
Put(query, response) ==
    /\ Len(cache) < MaxRows
    /\ cache' = SaveCache(cache, query, response, now)
    /\ probe' = [NoProbe EXCEPT !.op = "put", !.query = query,
                                 !.result = Some(response),
                                 !.at = now, !.rows = Len(cache')]
    /\ UNCHANGED <<SITES, now, api_key, find, callback, subscriptions, sweep, user_sites>>

\* load_cache(query)
Get(query) ==
    /\ \E result \in LoadCache(cache, query, now) :
         probe' = [NoProbe EXCEPT !.op = "get", !.query = query, !.result = result,
                                   !.at = now, !.rows = Len(cache)]
    /\ UNCHANGED <<SITES, cache, now, api_key, find, callback, subscriptions, sweep,
                   user_sites>>

\* summarize_texts(texts), for the texts at hand
Summarize ==
    /\ probe.op = "texts"
    /\ probe' = [probe EXCEPT !.op = "summarize",
                               !.result = Some(SummarizeTexts(probe.texts))]
    /\ UNCHANGED <<SITES, cache, now, api_key, find, callback, subscriptions, sweep,
                   user_sites>>

-----------------------------------------------------------------------------
(* Specifications *)

NoCopy == [op |-> "none", query |-> "", text |-> <<>>]

\* the state after init_db on a new database, with the three built-in sources
Init ==
    /\ SITES = BuiltinSites
    /\ cache = <<>>
    /\ now = 0
    /\ api_key \in BOOLEAN
    /\ find = [i \in Inv |-> IdleFind]
    /\ callback = NoCopy
    /\ subscriptions = <<>>
    /\ sweep = IdleSweep
    /\ probe = NoProbe
    /\ user_sites = <<>>

\* the steps of the /find invocations in runners, for queries in queries,
\* where the request of source j ends with an answer of answers[SITES[j]],
\* fetch_article with a fault of faults and the AI service with a reply of
\* ai_replies
FindSteps(runners, queries, answers, faults, ai_replies) ==
    \/ \E i \in runners, query \in queries : FindStart(i, query)
    \/ \E i \in runners : FindReplied(i)
    \/ \E i \in runners : FindSearch(i)
    \/ \E i \in runners, j \in 1..Len(SITES) : \E answer \in answers[SITES[j]] :
          SearchDone(i, j, answer)
    \/ \E i \in runners : FindMerge(i)
    \/ \E i \in runners, k \in 1..MaxLinks, fault \in faults : FetchDone(i, k, fault)
    \/ \E i \in runners : FindExtract(i)
    \/ \E i \in runners, ai_reply \in ai_replies : FindSummary(i, ai_reply)
    \/ \E i \in runners, sent \in BOOLEAN : FindEdit(i, sent)
    \/ \E i \in runners : FindAgain(i)

\* the steps of the sweep, where the request of source j ends with an answer
\* of answers[SITES[j]]
SweepSteps(answers) ==
    \/ SweepStart
    \/ \E j \in 1..Len(SITES) : \E answer \in answers[SITES[j]] :
          SweepSearchDone(j, answer)
    \/ SweepNotify
    \/ \E sent \in BOOLEAN : SweepSent(sent)

\* the sequences of answers, one per key of SITES, that the requests of one
\* fan-out can end with
Fanout(answers) ==
    {got \in [1..Len(SITES) -> UNION {answers[site] : site \in DOMAIN answers}] :
        \A j \in 1..Len(SITES) : got[j] \in answers[SITES[j]]}

\* every request is answered: a source reports no link or its first link
FirstLinks ==
    [site \in Range(BuiltinSites) \cup CustomSites |->
        CASE site = "realpython"    -> {Ok(<<>>), Ok(<<"https://realpython.com/a">>)}
          [] site = "medium"        -> {Ok(<<>>), Ok(<<"https://medium.com/a">>)}
          [] site = "stackoverflow" -> {Ok(<<>>), Ok(<<"https://stackoverflow.com/a">>)}
          [] OTHER                  -> {Ok(<<>>)}]

\* every request is answered: only the first source reports a link
OneLink ==
    [site \in Range(BuiltinSites) \cup CustomSites |->
        CASE site = "realpython"    -> {Ok(<<>>), Ok(<<"https://realpython.com/a">>)}
          [] OTHER                  -> {Ok(<<>>)}]

\* a request is answered with the first link of its source or fails in one of
\* the three ways
FaultyLinks ==
    [site \in Range(BuiltinSites) \cup CustomSites |->
        CASE site = "realpython"    ->
                {Ok(<<"https://realpython.com/a">>), BadStatus, ClientError, Timeout}
          [] site = "medium"        ->
                {Ok(<<"https://medium.com/a">>), BadStatus, ClientError, Timeout}
          [] site = "stackoverflow" ->
                {Ok(<<"https://stackoverflow.com/a">>), BadStatus, ClientError, Timeout}
          [] OTHER                  -> {Ok(<<>>), BadStatus}]

\* the first source reports two links, the second one link, or a request fails
SweepLinks ==
    [site \in Range(BuiltinSites) \cup CustomSites |->
        CASE site = "realpython"    ->
                {Ok(<<>>), Ok(<<"https://realpython.com/a", "https://realpython.com/b">>),
                 Timeout}
          [] site = "medium"        ->
                {Ok(<<>>), Ok(<<"https://medium.com/a">>), ClientError}
          [] OTHER                  -> {Ok(<<>>)}]

AIErrors == {"APITimeoutError", "AuthenticationError", "APIResponseValidationError"}

\* the replies of the AI service: a summary, an empty content, no choice, an error
AIReplies ==
    {Choice(<<"asyncio", "wins.">>), Choice(<<>>), NoChoices}
        \cup {AIError(error) : error \in AIErrors}

\* the program: /find invocations one after another, the callbacks, the
\* /addsite and subscription commands and the sweep, over one query and one
\* link, as time passes
Next ==
    \/ FindSteps({1}, {"asyncio"}, OneLink, {"none", "IOError"},
                 {Choice(<<"asyncio", "wins.">>)})
    \/ CopySummary("asyncio")
    \/ \E got \in Fanout(OneLink) : ShowSources("asyncio", got)
    \/ \E answer \in {Ok(<<>>), BadStatus} : AddSite(CustomSite, answer)
    \/ Subscribe(1, "asyncio")
    \/ Unsubscribe(1, "asyncio")
    \/ SweepSteps(OneLink)
    \/ Tick(TTL_TICKS)

Spec == Init /\ [][Next]_vars

\* the /find pipeline in detail: one invocation after another, every source
\* reporting, every outcome of the extraction and of the AI service
NextFind ==
    \/ FindSteps({1}, {"asyncio", "django", ""}, FirstLinks, {"none", "IOError"},
                 {Choice(<<"asyncio", "wins.">>), NoChoices, AIError("APITimeoutError")})
    \/ \E query \in {"asyncio", "django"} : CopySummary(query)
    \/ Tick(TTL_TICKS)

SpecFind == Init /\ [][NextFind]_vars

\* one /find with its faults: requests that fail, pages that do not parse,
\* every reply of the AI service
NextFaults ==
    \/ FindSteps({1}, {"asyncio"}, FaultyLinks, FetchFaults, AIReplies)
    \/ CopySummary("asyncio")

SpecFaults == Init /\ [][NextFaults]_vars

\* /find while /addsite adds sources
NextSites ==
    \/ \E site_url \in CustomSites \cup {"", "example.com"},
          answer \in {Ok(<<>>), BadStatus, ClientError} : AddSite(site_url, answer)
    \/ FindSteps({1}, {"asyncio"}, OneLink, {"none"}, {Choice(<<"asyncio", "wins.">>)})

SpecSites == Init /\ [][NextSites]_vars

\* two /find invocations side by side
NextPair ==
    FindSteps(Inv, {"asyncio"}, FirstLinks, {"none", "IOError"},
              {Choice(<<"asyncio", "wins.">>)})

SpecPair == Init /\ [][NextPair]_vars

\* two /find invocations for one query as time passes: the second source
\* reports a link or none, so that two responses for the query can differ
RaceLinks ==
    [site \in Range(BuiltinSites) \cup CustomSites |->
        CASE site = "realpython"    -> {Ok(<<"https://realpython.com/a">>)}
          [] site = "medium"        -> {Ok(<<>>), Ok(<<"https://medium.com/a">>)}
          [] OTHER                  -> {Ok(<<>>)}]

NextRace ==
    \/ FindSteps(Inv, {"asyncio"}, RaceLinks, {"none"}, {Choice(<<"asyncio", "wins.">>)})
    \/ Tick(TTL_TICKS - 1)

SpecRace == Init /\ [][NextRace]_vars

\* one /find over pages that parse in full, in part or not at all
ExtractLinks ==
    [site \in Range(BuiltinSites) \cup CustomSites |->
        CASE site = "realpython"    ->
                {Ok(<<"https://realpython.com/a", "https://realpython.com/b">>)}
          [] site = "medium"        -> {Ok(<<>>), Ok(<<"https://medium.com/a">>)}
          [] site = "stackoverflow" -> {Ok(<<"https://stackoverflow.com/a">>)}
          [] OTHER                  -> {Ok(<<>>)}]

NextExtract ==
    FindSteps({1}, {"asyncio"}, ExtractLinks, {"none", "IOError"} \cup PartialPages,
              {Choice(<<"asyncio", "wins.">>)})

SpecExtract == Init /\ [][NextExtract]_vars

\* the sweep over the pairs of two subscribers
NextSweep ==
    \/ \E user_id \in {1, 2} : Subscribe(user_id, "asyncio")
    \/ \E user_id \in {1, 2} : Unsubscribe(user_id, "asyncio")
    \/ SweepSteps(SweepLinks)

SpecSweep == Init /\ [][NextSweep]_vars

\* the merge alone: an invocation whose searches have returned any lists of
\* up to MaxLen links, with and without a source added by /addsite
InitMerge ==
    /\ SITES \in {BuiltinSites, BuiltinSites \o <<CustomSite>>}
    /\ cache = <<>>
    /\ now = 0
    /\ api_key = FALSE
    /\ callback = NoCopy
    /\ subscriptions = <<>>
    /\ sweep = IdleSweep
    /\ probe = NoProbe
    /\ user_sites = <<>>
    /\ \E a \in SearchLists(SITES[1]), b \in SearchLists(SITES[2]),
          c \in SearchLists(SITES[3]) :
          find = [i \in Inv |->
                    IF i = 1
                    THEN [IdleFind EXCEPT !.pc = "search", !.query = "asyncio",
                             !.reply = SearchingText, !.searches = Len(SITES),
                             !.trail = <<"SEARCH">>,
                             !.answers =
                                 <<Ok(a), Ok(b), Ok(c)>>
                                    \o [j \in 1..(Len(SITES) - 3) |-> Ok(<<>>)],
                             !.site_results =
                                 <<a, b, c>> \o [j \in 1..(Len(SITES) - 3) |-> <<>>]]
                    ELSE IdleFind]

NextMerge == FindMerge(1)

SpecMerge == InitMerge /\ [][NextMerge]_vars

\* the cache alone: direct calls of save_cache and load_cache as time passes
Responses == {<<"r1">>, <<"r2">>}

NextCache ==
    \/ \E query \in Queries, response \in Responses : Put(query, response)
    \/ \E query \in Queries : Get(query)
    \/ \E d \in {TTL_TICKS - 1, TTL_TICKS} : Tick(d)

InitCache == Init /\ api_key = FALSE

SpecCache == InitCache /\ [][NextCache]_vars

\* the site lists alone: the four commands of two users
Users == {1, 2}

NextUserSites ==
    \E user_id \in Users :
        \/ my_sources(user_id)
        \/ \E site_url \in {CustomSite, DefaultSites[1]} :
              \/ add_source(user_id, site_url)
              \/ remove_source(user_id, site_url)
        \/ reset_sources(user_id)

SpecUserSites == InitCache /\ [][NextUserSites]_vars

\* the basic summarizer alone: summarize_texts on up to MaxTexts texts of up to
\* MaxWords words
SummaryWords == {"Asyncio", "asyncio", "fast.", "slow!"}

SummaryTexts == SeqsUpTo(SeqsUpTo(SummaryWords, MaxWords), MaxTexts)

InitSummary ==
    /\ SITES = BuiltinSites
    /\ cache = <<>>
    /\ now = 0
    /\ api_key = FALSE
    /\ find = [i \in Inv |-> IdleFind]
    /\ callback = NoCopy
    /\ subscriptions = <<>>
    /\ sweep = IdleSweep
    /\ \E texts \in SummaryTexts : probe = [NoProbe EXCEPT !.op = "texts", !.texts = texts]
    /\ user_sites = <<>>

NextSummary == Summarize

SpecSummary == InitSummary /\ [][NextSummary]_vars


-----------------------------------------------------------------------------
(* The round-robin merge (SpecMerge) *)

\* the invocations whose merge has run and whose lists are still at hand
Merged == {i \in Inv : find[i].pc = "fetch" \/ find[i].outcome = "no_articles"}

\* C1: the merge is round-robin. Every merged link is the link of its place
\* (site, index); before a link of depth k + 1 every source with a link at a
\* depth up to k has given it; within one depth the sources come in their
\* fixed order; three sources of two links give s1[0], s2[0], s3[0], s1[1], s2[1].
C1_RoundRobin ==
    \A i \in Merged :
        LET r == find[i].site_results
            s == find[i].slots
            gave(p, j, k) == \E p2 \in 1..(p - 1) : s[p2].site = j /\ s[p2].index = k
        IN /\ find[i].all_links = [p \in 1..Len(s) |-> r[s[p].site][s[p].index + 1]]
           /\ \A p \in 1..Len(s), j \in 1..Len(r) :
                /\ \A k \in 0..(s[p].index - 1) : k < Len(r[j]) => gave(p, j, k)
                /\ (j < s[p].site /\ s[p].index < Len(r[j])) => gave(p, j, s[p].index)
           /\ (\A j \in 1..3 : Len(r[j]) = 2) =>
                find[i].all_links = <<r[1][1], r[2][1], r[3][1], r[1][2], r[2][2]>>

\* three sources with two links each have been merged into five links
C1_Witness ==
    \E i \in Merged :
        /\ \A j \in 1..3 : Len(find[i].site_results[j]) = 2
        /\ Len(find[i].all_links) = 5
        /\ find[i].slots[4] = [site |-> 1, index |-> 1,
                               link |-> find[i].site_results[1][2]]

\* C2: no URL occurs twice in the merged list.
C2_Deduplicated == \A i \in Merged : NoDup(find[i].all_links)

\* the URLs of all the per-source lists
AllUrls(site_results) == UNION {Range(site_results[j]) : j \in 1..Len(site_results)}

\* C3: the merged list has at most 5 links, as many as min(5, the number of
\* links left once duplicates are dropped), and is empty only when every
\* per-source list is empty.
C3_Length ==
    \A i \in Merged :
        /\ Len(find[i].all_links) <= MaxLinks
        /\ Len(find[i].all_links) =
              Min(MaxLinks, Cardinality(AllUrls(find[i].site_results)))
        /\ (find[i].all_links = <<>>) =>
              \A j \in 1..Len(find[i].site_results) : find[i].site_results[j] = <<>>

\* C4: the links taken from a source are a prefix of its list, in its order:
\* the n-th link the merged list takes from a source is the n-th of that source.
C4_SourceOrder ==
    \A i \in Merged :
        LET r == find[i].site_results
            s == find[i].slots
        IN \A p \in 1..Len(s) :
              /\ s[p].index = Cardinality({p2 \in 1..(p - 1) : s[p2].site = s[p].site})
              /\ find[i].all_links[p] = r[s[p].site][s[p].index + 1]

\* a source has given two links while another had none left to give
C4_Witness ==
    \E i \in Merged :
        /\ Len(find[i].site_results[1]) = 1
        /\ Len(find[i].site_results[3]) = 3
        /\ \E p, p2 \in 1..Len(find[i].slots) :
              /\ p < p2
              /\ find[i].slots[p].site = 3 /\ find[i].slots[p].index = 1
              /\ find[i].slots[p2].site = 3 /\ find[i].slots[p2].index = 2

-----------------------------------------------------------------------------
(* The /find pipeline and the cache (SpecFind) *)

\* a row of the query is the latest by created_at and within the TTL
FreshRow(query) ==
    \E row \in TopRows(cache, query) : now - SavedTime(row.created_at) < TTL_TICKS

\* C5: a /find for a query with a cache entry within the TTL replies with a
\* stored response of that query and searches, fetches, summarizes and
\* writes nothing.
C5_CacheHit ==
    /\ [](\A i \in Inv : find[i].outcome = "cached" =>
            /\ find[i].searches = 0 /\ find[i].fetches = 0
            /\ find[i].summaries = 0 /\ find[i].writes = 0
            /\ find[i].pending = {} /\ find[i].fetching = {}
            /\ \E k \in 1..Len(cache) :
                  cache[k].query = find[i].query /\ cache[k].response = find[i].reply)
    /\ [][\A i \in Inv :
            (find[i].pc = "idle" /\ find'[i].pc # "idle" /\ FreshRow(find'[i].query)) =>
                /\ find'[i].outcome = "cached"
                /\ find'[i].pc = "reply"
                /\ \E row \in TopRows(cache, find'[i].query) :
                      find'[i].reply = row.response
                /\ cache' = cache]_vars

\* an invocation has answered from the cache and ended
C5_Witness ==
    \E i \in Inv :
        /\ find[i].pc = "done"
        /\ find[i].outcome = "cached"
        /\ find[i].reply # <<>>
        /\ find[i].reply[1] = QueryHeader

NoResults == {"no_articles", "no_content"}

\* C6: an invocation that ends with no results writes no cache row: none of
\* its steps changes the rows.
C6_NoResultsNoWrite ==
    /\ [](\A i \in Inv : find[i].outcome \in NoResults => find[i].writes = 0)
    /\ [][\A i \in Inv :
            (find'[i] # find[i] /\ (find[i].outcome \in NoResults
                                    \/ find'[i].outcome \in NoResults)) =>
                cache' = cache]_vars

\* both no-results outcomes have been reached, one with a row in the cache
C6_Witness ==
    \E i \in Inv :
        /\ find[i].pc = "done"
        /\ find[i].outcome = "no_content"
        /\ find[i].fetches > 0
        /\ cache # <<>>

-----------------------------------------------------------------------------
(* The cache API (SpecCache) *)

\* the last call was a get and nothing has happened since
JustGot == probe.op = "get" /\ probe.at = now /\ probe.rows = Len(cache)

\* the row of the last put for a query
LastPut(query) == RowsOf(cache, query)[Len(RowsOf(cache, query))]

\* C7: a get(q) less than the TTL after put(q, r), with no later put for q,
\* returns r.
C7_GetAfterPut ==
    (/\ JustGot
     /\ RowsOf(cache, probe.query) # <<>>
     /\ now - SavedTime(LastPut(probe.query).created_at) < TTL_TICKS)
        => probe.result = Some(LastPut(probe.query).response)

\* C8: a get returns None when the most recent entry of the query is TTL old
\* or older, and no get changes a cache row.
C8_ExpiryOnRead ==
    /\ [](JustGot =>
            /\ (\A row \in TopRows(cache, probe.query) :
                    now - SavedTime(row.created_at) >= TTL_TICKS)
                  => probe.result = NoneValue
            /\ probe.result # NoneValue =>
                  \E row \in TopRows(cache, probe.query) :
                      /\ probe.result = Some(row.response)
                      /\ now - SavedTime(row.created_at) < TTL_TICKS)
    /\ [][(probe' # probe /\ probe'.op = "get") => cache' = cache]_vars

\* a get has returned None for a query whose only row is exactly TTL old
C8_Witness ==
    /\ JustGot
    /\ probe.result = NoneValue
    /\ \E k \in 1..Len(cache) :
          /\ cache[k].query = probe.query
          /\ now - SavedTime(cache[k].created_at) = TTL_TICKS

\* C9: after any puts for a query, equal timestamps included, a get returns
\* the response written last, and only that.
C9_LatestWins ==
    \A query \in Queries :
        RowsOf(cache, query) # <<>> =>
            \A res \in LoadCache(cache, query, now) :
                res \in {NoneValue, Some(LastPut(query).response)}

-----------------------------------------------------------------------------
(* The program (Spec) *)

\* C10: the cache is append-only. A step leaves every row in place and adds
\* at most one; the save of a rendered response adds exactly one.
C10_AppendOnly ==
    [][/\ Len(cache') >= Len(cache)
       /\ SubSeq(cache', 1, Len(cache)) = cache
       /\ Len(cache') <= Len(cache) + 1
       /\ \A i \in Inv :
            (find[i].pc = "edit" /\ find'[i].outcome = "rendered") =>
                /\ Len(cache') = Len(cache) + 1
                /\ cache'[Len(cache')].query = find[i].query
                /\ cache'[Len(cache')].response = find[i].response]_vars

\* two responses of one query are in the cache
C10_Witness ==
    /\ Len(cache) = 2
    /\ cache[1].query = cache[2].query

-----------------------------------------------------------------------------
(* The faults of one /find (SpecFaults) *)

\* the invocations whose response has been put together or shown
Summarized == {i \in Inv : find[i].pc = "edit" \/ find[i].outcome = "rendered"}

\* C11: with a key set, when the call of the AI service fails, the summary of
\* the rendered response is the extractive summary of the same texts.
C11_AIFallback ==
    \A i \in Inv :
        (find[i].pc = "edit" /\ api_key /\ find[i].ai_reply.kind = "error") =>
            find[i].summary = SummarizeTexts(find[i].texts)

\* C12: whatever the AI service does, the summarize step hands find_handler a
\* text that is not empty.
C12_SummaryNeverFails ==
    \A i \in Summarized : find[i].summary # <<>>

\* C13: a search request that fails, by its status, a transport error or a
\* timeout, gives the empty list for its source; the list of every other
\* source arrives as reported; the fan-out never raises.
C13_SearchIsolation ==
    \A i \in Inv :
        /\ find[i].outcome # "search_raised"
        /\ find[i].pc = "search" =>
              \A j \in 1..Len(find[i].answers) :
                  j \notin find[i].pending =>
                      find[i].site_results[j] =
                          IF find[i].answers[j].kind = "ok"
                          THEN find[i].answers[j].links ELSE <<>>

\* C14: of N fetched URLs of which M fail, N - M give an article and each
\* failed one gives (None, None); the batch never raises.
C14_ExtractorTolerance ==
    \A i \in Inv :
        /\ find[i].outcome # "fetch_raised"
        /\ find[i].pc = "fetch" =>
              /\ \A k \in 1..Len(find[i].all_links) :
                    k \notin find[i].fetching =>
                        find[i].articles[k] =
                            IF find[i].faults[k] = "none"
                            THEN ArticleOf(find[i].all_links[k]) ELSE NoArticle
              /\ find[i].fetching = {} =>
                    Cardinality(Usable(find[i].articles)) =
                        Len(find[i].all_links)
                          - Cardinality({k \in 1..Len(find[i].faults) :
                                            find[i].faults[k] # "none"})

\* C20: the text copy_summary takes out of a response that /find has saved is
\* the summary that was rendered into it.
C20_ConclusionRoundTrip ==
    \A i \in Inv :
        find[i].outcome = "rendered" =>
            /\ \E k \in 1..Len(cache) : cache[k].response = find[i].reply
            /\ AfterMarker(find[i].reply) = find[i].summary

-----------------------------------------------------------------------------
(* The sweep (SpecSweep) *)

\* C15: a failure at one pair, of its send or of its search, does not keep the
\* sweep from the pairs that remain: no run ends with a pair after the failed
\* one left to do.
C15_SweepIsolation ==
    (sweep.pc = "idle" /\ sweep.todo # <<>>) => Tail(sweep.todo) = <<>>

\* C16: the sweep sends a message for a pair exactly when its search found a
\* link, and the links of the message are the round-robin merge, cap 5, of
\* the per-source lists: a message that is being sent is for lists that hold
\* a link and lists the merge of those lists.
C16_SweepMerge ==
    sweep.pc = "send" =>
        /\ Flatten(sweep.site_results) # <<>>
        /\ sweep.message =
              <<"New articles for", Head(sweep.todo).query>>
                  \o LinksOf(MergeSlots(sweep.site_results))

-----------------------------------------------------------------------------
(* /find and /addsite (SpecSites) *)

\* C17: an invocation has at most 5 search requests and at most 5 article
\* fetches in flight, at most 10 requests in all.
C17_RequestsInFlight ==
    \A i \in Inv :
        /\ Cardinality(find[i].pending) <= 5
        /\ Cardinality(find[i].fetching) <= 5
        /\ Cardinality(find[i].pending) + Cardinality(find[i].fetching) <= 10

-----------------------------------------------------------------------------
(* Two invocations side by side (SpecPair) *)

\* C18: the stages of an invocation are joined by barriers. Once its merge has
\* run every search of the invocation has ended; once its summary is under way
\* every fetch has ended; no fetch is in flight while a search is pending.
C18_BarrierJoin ==
    \A i \in Inv :
        /\ (find[i].pc \in {"fetch", "summary", "edit"} \/ find[i].slots # <<>>) =>
              /\ find[i].pending = {}
              /\ \A j \in 1..Len(find[i].answers) : find[i].answers[j] # Unanswered
        /\ find[i].pc \in {"summary", "edit"} =>
              /\ find[i].fetching = {}
              /\ \A k \in 1..Len(find[i].faults) : find[i].faults[k] # "pending"
        /\ find[i].fetching # {} => find[i].pending = {}

\* one invocation is fetching its articles while the searches of the other
\* are still pending
C18_Witness ==
    /\ find[1].pc = "fetch" /\ find[1].fetching # {}
    /\ Len(find[1].all_links) = 3
    /\ find[2].pc = "search" /\ find[2].pending # {}

-----------------------------------------------------------------------------
(* Who writes the cache (Spec) *)

\* C19: a cache row is written only by a /find invocation, once, after its
\* search, merge, extraction, summary and a render that succeeded, in that
\* order; no step of the sweep, of a callback, of a subscription command or
\* of /addsite writes a row.
C19_OnlyFindWrites ==
    /\ [](\A i \in Inv : find[i].writes <= 1)
    /\ [][cache' # cache =>
            /\ sweep' = sweep /\ callback' = callback
            /\ subscriptions' = subscriptions /\ SITES' = SITES
            /\ \E i \in Inv :
                  /\ find[i].pc = "edit"
                  /\ find[i].trail = <<"SEARCH", "MERGE", "EXTRACT", "SUMMARIZE">>
                  /\ find[i].writes = 0
                  /\ find'[i].outcome = "rendered"
                  /\ find'[i].writes = 1
                  /\ find'[i].trail = find[i].trail \o <<"RENDER", "CACHE_WRITE">>
                  /\ cache' = Append(cache, cache'[Len(cache')])
                  /\ cache'[Len(cache')].response = find[i].response]_vars

\* a response is in the cache after a sweep has notified, show_sources has
\* answered and /addsite has added a source
C19_Witness ==
    /\ cache # <<>>
    /\ sweep.notified # <<>>
    /\ callback.op = "sources"
    /\ Len(SITES) = 4
    /\ subscriptions # <<>>

-----------------------------------------------------------------------------
(* The basic summarizer (SpecSummary) *)

\* the sentences of the texts, in the order of the texts
SentencesOf(texts) ==
    Flatten([k \in 1..Len(texts) |-> SplitSentences(texts[k], <<>>)])

\* the number of pairs (a word of the sentence, an equal word of all the
\* sentences), both in lower case
FrequencySum(sentences, s) ==
    LET all == Flatten(sentences)
    IN Cardinality({pq \in (1..Len(s)) \X (1..Len(all)) :
                       Lower(s[pq[1]]) = Lower(all[pq[2]])})

\* sentence a comes before sentence b in the ranking: the higher score first,
\* equal scores in their original order
Before(sentences, a, b) ==
    \/ FrequencySum(sentences, sentences[a]) > FrequencySum(sentences, sentences[b])
    \/ /\ FrequencySum(sentences, sentences[a]) = FrequencySum(sentences, sentences[b])
       /\ a < b

\* C21: the basic summarizer. No text at all gives the sentinel; otherwise the
\* summary is made of min(3, number of sentences) sentences of the input, the
\* ones with the highest scores (the score of a sentence is the sum, over its
\* words, of the frequency of the lowercased word among all sentences), joined
\* from the highest score down, sentences of equal score in their original order.
C21_Summarizer ==
    probe.op = "summarize" =>
        LET sentences == SentencesOf(probe.texts)
            n == Len(sentences)
            m == Min(MaxSentences, n)
        IN /\ probe.texts = <<>> => probe.result = Some(SummarySentinel)
           /\ probe.texts # <<>> =>
                 \E chosen \in [1..m -> 1..n] :
                     /\ \A a, b \in 1..m : a < b => Before(sentences, chosen[a], chosen[b])
                     /\ \A k \in 1..n :
                           (\A a \in 1..m : chosen[a] # k)
                               => \A a \in 1..m : Before(sentences, chosen[a], k)
                     /\ probe.result = Some(Flatten([a \in 1..m |-> sentences[chosen[a]]]))

\* more than three sentences, two of them of equal score, and the summary is
\* not the first three sentences in their original order
C21_Witness ==
    /\ probe.op = "summarize"
    /\ LET sentences == SentencesOf(probe.texts)
       IN /\ Len(sentences) > MaxSentences
          /\ \E a, b \in 1..Len(sentences) :
                /\ a < b
                /\ sentences[a] # sentences[b]
                /\ FrequencySum(sentences, sentences[a]) = FrequencySum(sentences, sentences[b])
          /\ probe.result # Some(Flatten(Take(sentences, MaxSentences)))
          /\ probe.result # Some(SummarySentinel)

-----------------------------------------------------------------------------
(* The site lists of the users (SpecUserSites) *)

\* C22: the site list of a user is made on the first read. A read that finds
\* no row of the user returns the three default sources and leaves them in
\* the table; whatever was added, removed or reset before, a read never
\* returns an empty list and returns what the table then holds for the user;
\* a read that follows a read of the same user with no write in between
\* returns the same list and inserts no row.
C22_LazySites ==
    /\ [](probe.op = "my_sources" =>
            /\ probe.result # Some(<<>>)
            /\ probe.result = Some(UserUrls(user_sites, probe.user_id))
            /\ probe.rows = 0 => probe.result = Some(DefaultSites))
    /\ [][(probe.op = "my_sources" /\ probe'.op = "my_sources"
             /\ probe'.user_id = probe.user_id)
               => (probe'.result = probe.result /\ user_sites' = user_sites)]_vars

\* a user reads the list while the table holds rows of another user only: the
\* read gives the defaults and the rows of the reader are there afterwards
C22_Witness ==
    /\ probe.op = "my_sources"
    /\ probe.rows = 0
    /\ probe.result = Some(DefaultSites)
    /\ UserUrls(user_sites, probe.user_id) = DefaultSites
    /\ \E k \in 1..Len(user_sites) : user_sites[k].user_id # probe.user_id

-----------------------------------------------------------------------------
(* Subscriptions and the sweep (SpecSweep) *)

\* C23: a sweep notifies a (subscriber, query) pair at most once, however
\* many rows the pair has; unsubscribing removes every row of the pair, and a
\* sweep works on the pairs the table held when it started and on no other,
\* so that a sweep started after the unsubscription does not notify the pair
\* until it is subscribed again.
C23_OncePerPair ==
    /\ [](NoDup(sweep.todo) /\ NoDup(sweep.notified))
    /\ [][(sweep.pc = "idle" /\ sweep' # sweep)
              => /\ Range(sweep'.todo) = Range(subscriptions)
                 /\ sweep'.notified = <<>>]_vars
    /\ [][sweep.pc # "idle"
              => /\ Range(sweep'.todo) \subseteq Range(sweep.todo)
                 /\ \/ sweep'.notified = sweep.notified
                    \/ /\ sweep'.notified = Append(sweep.notified, Head(sweep.todo))
                       /\ Head(sweep.todo) \notin Range(sweep'.todo)]_vars
    /\ [][Len(subscriptions') < Len(subscriptions)
              => \E pair \in Range(subscriptions) :
                    /\ pair \notin Range(subscriptions')
                    /\ subscriptions' = SelectSeq(subscriptions, LAMBDA r : r # pair)]_vars

\* a sweep has ended with one notification for a pair that has two rows
C23_Witness ==
    /\ sweep.outcome = "ended"
    /\ Len(subscriptions) = 2
    /\ subscriptions[1] = subscriptions[2]
    /\ sweep.notified = <<subscriptions[1]>>

-----------------------------------------------------------------------------
(* Two invocations for one query (SpecRace) *)

\* the rows of the query that were created later than every other row of it
Latest(query) ==
    {k \in 1..Len(cache) :
        /\ cache[k].query = query
        /\ \A m \in 1..Len(cache) :
              (m # k /\ cache[m].query = query)
                  => TextLess(cache[m].created_at, cache[k].created_at)}

\* C24: invocations for one query that all miss the cache before any of them
\* writes are not coalesced. Each one that renders has run its own searches,
\* fetches and summary and appends its own row with its own response; a later
\* read of the query within the TTL of the row created last, by load_cache or
\* by the cache check of another /find, gives the response of that row.
C24_NoCoalescing ==
    /\ [][\A i \in Inv : (find[i].pc = "edit" /\ find'[i].outcome = "rendered") =>
              /\ find[i].trail = <<"SEARCH", "MERGE", "EXTRACT", "SUMMARIZE">>
              /\ find[i].searches = Len(SITES)
              /\ find[i].fetches = Len(find[i].all_links)
              /\ cache' = Append(cache, [query |-> find[i].query,
                                         response |-> find[i].response,
                                         created_at |-> AdaptDatetime(now)])]_vars
    /\ [](\A query \in Queries : \A k \in Latest(query) :
              now - SavedTime(cache[k].created_at) < TTL_TICKS
                  => LoadCache(cache, query, now) = {Some(cache[k].response)})
    /\ [][\A i \in Inv : (find[i].pc = "idle" /\ find'[i].pc # "idle") =>
              \A k \in Latest(find'[i].query) :
                  now - SavedTime(cache[k].created_at) < TTL_TICKS
                      => /\ find'[i].outcome = "cached"
                         /\ find'[i].reply = cache[k].response]_vars

\* both invocations have rendered and written: the two rows were created
\* less than the TTL apart, so the second invocation checked the cache before
\* the first wrote, and their responses differ; a third /find of the query is
\* answered from the later row
C24_Witness ==
    /\ Len(cache) = 2
    /\ cache[1].query = cache[2].query
    /\ TextLess(cache[1].created_at, cache[2].created_at)
    /\ SavedTime(cache[2].created_at) - SavedTime(cache[1].created_at) < TTL_TICKS
    /\ cache[1].response # cache[2].response
    /\ find[1].outcome = "cached"
    /\ find[1].reply = cache[2].response
    /\ find[2].outcome = "rendered"

-----------------------------------------------------------------------------
(* How a /find ends (SpecFaults) *)

\* C25: a /find invocation whose network calls have all completed or failed
\* has ended in one of four ways: the cached response, the no-articles reply,
\* the no-content reply, or the rendered response with its cache write; the
\* failure of a source or of a link does not end it in any other way.
C25_TerminalOutcome ==
    \A i \in Inv :
        find[i].pc = "done" =>
            find[i].outcome \in {"cached", "no_articles", "no_content", "rendered"}

-----------------------------------------------------------------------------
(* Key ideas and texts (SpecExtract) *)

\* the merged links whose page gave a title and a body, both non-empty
Complete(i) ==
    {k \in 1..Len(find[i].all_links) :
        find[i].articles[k].title # <<>> /\ find[i].articles[k].text # <<>>}

\* C26: the key ideas of an invocation are one entry for each merged link
\* whose extraction gave a non-empty title and a non-empty body, in the order
\* of the merged links, each made of that title, body and link; the texts
\* handed to the summarizer are the bodies of the same links in the same
\* order; a link whose page gave only a title or only a body is in neither;
\* the rendered response holds these ideas.
C26_KeyIdeas ==
    \A i \in Inv :
        find[i].pc \in {"summary", "edit"} =>
            /\ Len(find[i].texts) = Len(find[i].ideas)
            /\ \E at \in [1..Len(find[i].ideas) -> 1..Len(find[i].all_links)] :
                  /\ \A a, b \in 1..Len(find[i].ideas) : a < b => at[a] < at[b]
                  /\ {at[a] : a \in 1..Len(find[i].ideas)} = Complete(i)
                  /\ \A a \in 1..Len(find[i].ideas) :
                        /\ find[i].ideas[a] = Idea(find[i].articles[at[a]].title,
                                                   find[i].articles[at[a]].text,
                                                   find[i].all_links[at[a]])
                        /\ find[i].texts[a] = find[i].articles[at[a]].text
            /\ find[i].pc = "edit" =>
                  find[i].response = Render(find[i].query, find[i].ideas, find[i].summary)

\* a response is rendered from four merged links: the first page gave only a
\* title, the second was complete, the third gave only a body, the fourth was
\* complete
C26_Witness ==
    /\ find[1].pc = "edit"
    /\ Len(find[1].all_links) = 4
    /\ find[1].articles[1].title # <<>> /\ find[1].articles[1].text = <<>>
    /\ find[1].articles[3].title = <<>> /\ find[1].articles[3].text # <<>>
    /\ Complete(1) = {2, 4}
    /\ Len(find[1].ideas) = 2

====
